---- MODULE Spec2Model ----
(***************************************************************************)
(* Model of the OBJ -> KMZ conversion pipeline (pipeline.py) and of the    *)
(* text-processing functions it calls (georeferencing.py,                  *)
(* z_offset_utils.py, assimp_converter.py, obj_parser.py,                  *)
(* kmz_generator.py).                                                      *)
(*                                                                         *)
(* Text is modelled character by character: a character is a record       *)
(* [c |-> <one-character string>, q |-> <<0, 1>>].  The one exception is   *)
(* the digit string Python produces when it formats a float: it is the     *)
(* single symbol [c |-> "float", q |-> <<n, d>>], standing for repr() of   *)
(* the float n/d.  Numbers are rationals <<n, d>> in lowest terms, d > 0.  *)
(***************************************************************************)
EXTENDS Integers, Sequences, FiniteSets, TLC

(***************************************************************************)
(* Bounds of the model.                                                    *)
(***************************************************************************)
MaxMeshLines == 3      \* lines of a mesh file in a run of convert_model
MaxLines == 3          \* lines of a mesh file given to apply_z_offset_to_obj
MaxCoef == 2           \* spread of the plane coefficients C and D drawn for the fit
MaxPoints == 3         \* vertices handed to the plane fit

(***************************************************************************)
(* Rationals.                                                              *)
(***************************************************************************)
Abs(n) == IF n < 0 THEN -n ELSE n

RECURSIVE Gcd(_, _)
Gcd(a, b) == IF b = 0 THEN a ELSE Gcd(b, a % b)

Rat(n, d) ==
    LET g == Gcd(Abs(n), Abs(d))
        s == IF d < 0 THEN -1 ELSE 1
    IN  <<(s * n) \div g, (s * d) \div g>>

RatSub(a, b) == Rat(a[1] * b[2] - b[1] * a[2], a[2] * b[2])

RatAdd(a, b) == Rat(a[1] * b[2] + b[1] * a[2], a[2] * b[2])

Zero == <<0, 1>>

(***************************************************************************)
(* Characters and strings.                                                 *)
(***************************************************************************)
Ch(s) == [c |-> s, q |-> Zero]

FloatRepr(x) == [c |-> "float", q |-> x]

Str(t) == [i \in 1..Len(t) |-> Ch(t[i])]

Whitespace == {" ", "\t", "\n", "\r"}

IsSpace(ch) == ch.c \in Whitespace

Digits == {"0", "1", "2", "3", "4", "5", "6", "7", "8", "9"}

DigitVal(ch) ==
    CASE ch.c = "0" -> 0 [] ch.c = "1" -> 1 [] ch.c = "2" -> 2
      [] ch.c = "3" -> 3 [] ch.c = "4" -> 4 [] ch.c = "5" -> 5
      [] ch.c = "6" -> 6 [] ch.c = "7" -> 7 [] ch.c = "8" -> 8
      [] ch.c = "9" -> 9

IsDigit(ch) == ch.c \in Digits

RECURSIVE LStrip(_)
LStrip(s) == IF s # <<>> /\ IsSpace(Head(s)) THEN LStrip(Tail(s)) ELSE s

RECURSIVE RStrip(_)
RStrip(s) ==
    IF s # <<>> /\ IsSpace(s[Len(s)]) THEN RStrip(SubSeq(s, 1, Len(s) - 1)) ELSE s

\* str.strip()
Strip(s) == RStrip(LStrip(s))

\* str.startswith(p)
StartsWith(s, p) == Len(s) >= Len(p) /\ SubSeq(s, 1, Len(p)) = p

RECURSIVE SplitFrom(_, _, _)
SplitFrom(s, cur, acc) ==
    IF s = <<>>
    THEN IF cur = <<>> THEN acc ELSE Append(acc, cur)
    ELSE IF IsSpace(Head(s))
         THEN SplitFrom(Tail(s), <<>>, IF cur = <<>> THEN acc ELSE Append(acc, cur))
         ELSE SplitFrom(Tail(s), Append(cur, Head(s)), acc)

\* str.split() with no separator: runs of whitespace separate, no empty tokens
Split(s) == SplitFrom(s, <<>>, <<>>)

RECURSIVE FindChar(_, _, _)
FindChar(s, c, i) ==
    IF i > Len(s) THEN 0
    ELSE IF s[i].c = c THEN i ELSE FindChar(s, c, i + 1)

\* str.split(' ', 1)[1]; "IndexError" when there is no space
AfterFirstSpace(s) ==
    LET i == FindChar(s, " ", 1)
    IN  IF i = 0 THEN [ok |-> FALSE, v |-> <<>>]
        ELSE [ok |-> TRUE, v |-> SubSeq(s, i + 1, Len(s))]

RECURSIVE DigitsVal(_, _)
DigitsVal(s, acc) ==
    IF s = <<>> THEN acc ELSE DigitsVal(Tail(s), 10 * acc + DigitVal(Head(s)))

RECURSIVE Pow10(_)
Pow10(n) == IF n = 0 THEN 1 ELSE 10 * Pow10(n - 1)

AllDigits(s) == \A i \in 1..Len(s) : IsDigit(s[i])

HasSign(s) == s # <<>> /\ s[1].c \in {"+", "-"}

Unsigned(s) == IF HasSign(s) THEN Tail(s) ELSE s

SignOf(s) == IF s # <<>> /\ s[1].c = "-" THEN -1 ELSE 1

Failed == [ok |-> FALSE, v |-> Zero]

\* int(token): optional sign, then one or more digits; ValueError otherwise
ParseInt(tok) ==
    LET u == Unsigned(tok)
    IN  IF u # <<>> /\ AllDigits(u)
        THEN [ok |-> TRUE, v |-> SignOf(tok) * DigitsVal(u, 0)]
        ELSE [ok |-> FALSE, v |-> 0]

\* float(token): optional sign, digits with at most one ".", at least one
\* digit; or the repr() of a float.  ValueError otherwise.
ParseFloat(tok) ==
    IF Len(tok) = 1 /\ tok[1].c = "float" THEN [ok |-> TRUE, v |-> tok[1].q]
    ELSE
    LET u == Unsigned(tok)
        p == FindChar(u, ".", 1)
        ip == IF p = 0 THEN u ELSE SubSeq(u, 1, p - 1)
        fp == IF p = 0 THEN <<>> ELSE SubSeq(u, p + 1, Len(u))
    IN  IF AllDigits(ip) /\ AllDigits(fp) /\ Len(ip) + Len(fp) > 0
        THEN [ok |-> TRUE,
              v |-> Rat(SignOf(tok) * (DigitsVal(ip, 0) * Pow10(Len(fp)) + DigitsVal(fp, 0)),
                        Pow10(Len(fp)))]
        ELSE Failed

(***************************************************************************)
(* Files.  A file's content is one string.  The files are opened in text   *)
(* mode: on reading, the terminators "\r\n" and "\r" become "\n"; on        *)
(* writing, "\n" becomes the platform's line separator.  Reading by lines   *)
(* keeps each line's "\n", and the last line may have none.                *)
(***************************************************************************)
RECURSIVE Decode(_)
\* open(path, 'r'): universal newlines
Decode(s) ==
    IF s = <<>> THEN <<>>
    ELSE IF Head(s).c = "\r"
         THEN IF Len(s) >= 2 /\ s[2].c = "\n"
              THEN <<Ch("\n")>> \o Decode(Tail(Tail(s)))
              ELSE <<Ch("\n")>> \o Decode(Tail(s))
         ELSE <<Head(s)>> \o Decode(Tail(s))

RECURSIVE Encode(_, _)
\* open(path, 'w'): "\n" is written as os.linesep
Encode(s, sep) ==
    IF s = <<>> THEN <<>>
    ELSE IF Head(s).c = "\n" THEN sep \o Encode(Tail(s), sep)
         ELSE <<Head(s)>> \o Encode(Tail(s), sep)

LF == <<Ch("\n")>>

CRLF == <<Ch("\r"), Ch("\n")>>

RECURSIVE ReadLinesFrom(_, _, _)
ReadLinesFrom(s, cur, acc) ==
    IF s = <<>>
    THEN IF cur = <<>> THEN acc ELSE Append(acc, cur)
    ELSE IF Head(s).c = "\n"
         THEN ReadLinesFrom(Tail(s), <<>>, Append(acc, Append(cur, Head(s))))
         ELSE ReadLinesFrom(Tail(s), Append(cur, Head(s)), acc)

\* f.readlines() / iteration over an open text file
ReadLines(content) == ReadLinesFrom(Decode(content), <<>>, <<>>)

RECURSIVE Concat(_)
Concat(ls) == IF ls = <<>> THEN <<>> ELSE Head(ls) \o Concat(Tail(ls))

(***************************************************************************)
(* z_offset_utils.py                                                       *)
(***************************************************************************)
VERTEX_PREFIX == Str(<<"v", " ">>)

\* tolerance 1e-6, in the unit of the plane coefficients (1e-7)
EPSILON == 10

\* _apply_z_offset_to_vertex_line(parts, z_offset)
ApplyZOffsetToVertexLine(parts, z_offset) ==
    IF Len(parts) < 4 THEN [ok |-> FALSE, v |-> <<>>]
    ELSE LET x == ParseFloat(parts[2])
             y == ParseFloat(parts[3])
             z == ParseFloat(parts[4])
         IN  IF ~(x.ok /\ y.ok /\ z.ok) THEN [ok |-> FALSE, v |-> <<>>]
             ELSE [ok |-> TRUE,
                   v |-> VERTEX_PREFIX \o <<FloatRepr(x.v)>> \o Str(<<" ">>)
                         \o <<FloatRepr(y.v)>> \o Str(<<" ">>)
                         \o <<FloatRepr(RatSub(z.v, z_offset))>> \o Str(<<"\n">>)]

\* _process_obj_line_with_z_offset(line, z_offset)
ProcessObjLineWithZOffset(line, z_offset) ==
    LET stripped == Strip(line)
    IN  IF stripped = <<>> THEN [ok |-> TRUE, v |-> line]
        ELSE IF StartsWith(stripped, VERTEX_PREFIX)
             THEN ApplyZOffsetToVertexLine(Split(stripped), z_offset)
             ELSE [ok |-> TRUE, v |-> line]

RECURSIVE WriteLines(_, _, _)
WriteLines(lines, z_offset, written) ==
    IF lines = <<>> THEN [ok |-> TRUE, out |-> written]
    ELSE LET r == ProcessObjLineWithZOffset(Head(lines), z_offset)
         IN  IF r.ok THEN WriteLines(Tail(lines), z_offset, written \o r.v)
             ELSE [ok |-> FALSE, out |-> written]

\* apply_z_offset_to_obj(input_obj, output_obj, z_offset): open(output, 'w')
\* empties the output file, each processed line is written as it is produced,
\* and an exception leaves what was written so far.  ok = FALSE stands for
\* FileProcessingError; sep is os.linesep.
ApplyZOffsetToObj(input, z_offset, sep) ==
    LET r == WriteLines(ReadLines(input), z_offset, <<>>)
    IN  [ok |-> r.ok, out |-> Encode(r.out, sep)]

RECURSIVE ExtractFrom(_, _)
ExtractFrom(lines, acc) ==
    IF lines = <<>> THEN [ok |-> TRUE, v |-> acc]
    ELSE LET line == Strip(Head(lines))
             parts == Split(line)
         IN  IF StartsWith(line, VERTEX_PREFIX) /\ Len(parts) >= 4
             THEN LET x == ParseFloat(parts[2])
                      y == ParseFloat(parts[3])
                      z == ParseFloat(parts[4])
                  IN  IF x.ok /\ y.ok /\ z.ok
                      THEN ExtractFrom(Tail(lines), Append(acc, <<x.v, y.v, z.v>>))
                      ELSE [ok |-> FALSE, v |-> <<>>]
             ELSE ExtractFrom(Tail(lines), acc)

\* _extract_all_vertices_from_obj(obj_path); ok = FALSE stands for ValueError
ExtractAllVerticesFromObj(content) ==
    LET r == ExtractFrom(ReadLines(content), <<>>)
    IN  IF r.ok /\ r.v = <<>> THEN [ok |-> FALSE, v |-> <<>>] ELSE r

RECURSIVE SumZ(_, _)
SumZ(vertices, idx) ==
    IF idx = {} THEN Zero
    ELSE LET i == CHOOSE j \in idx : TRUE
         IN  RatAdd(vertices[i][3], SumZ(vertices, idx \ {i}))

\* np.mean(vertices[inliers, 2])
MeanZ(vertices, inliers) ==
    LET s == SumZ(vertices, inliers)
    IN  Rat(s[1], s[2] * Cardinality(inliers))

\* as _calculate_z_offset, but dividing also when |C| equals the tolerance
CalculateZOffsetDividingAtTolerance(vertices, plane_eq, inliers) ==
    LET C == plane_eq[3]
        D == plane_eq[4]
    IN  IF Abs(C) >= EPSILON
        THEN [v |-> Rat(-D, C), warning |-> FALSE]
        ELSE [v |-> MeanZ(vertices, inliers), warning |-> TRUE]

\* _calculate_z_offset after plane.fit returned plane_eq = (A, B, C, D) and
\* the inlier indices
CalculateZOffsetFromPlane(vertices, plane_eq, inliers) ==
    LET C == plane_eq[3]
        D == plane_eq[4]
    IN  IF Abs(C) > EPSILON
        THEN [v |-> Rat(-D, C), warning |-> FALSE]
        ELSE [v |-> MeanZ(vertices, inliers), warning |-> TRUE]

(***************************************************************************)
(* georeferencing.py                                                       *)
(***************************************************************************)
\* as Hemisphere.from_code, but matching the code letter in either case
HemisphereFromCodeAnyCase(code) ==
    IF code.c \in {"N", "n"} THEN [ok |-> TRUE, v |-> "NORTH"]
    ELSE IF code.c \in {"S", "s"} THEN [ok |-> TRUE, v |-> "SOUTH"]
    ELSE [ok |-> FALSE, v |-> "none"]

\* Hemisphere.from_code(code); ok = FALSE stands for ValueError
HemisphereFromCode(code) ==
    IF code.c = "N" THEN [ok |-> TRUE, v |-> "NORTH"]
    ELSE IF code.c = "S" THEN [ok |-> TRUE, v |-> "SOUTH"]
    ELSE [ok |-> FALSE, v |-> "none"]

NoAnchor == [ok |-> FALSE, easting |-> Zero, northing |-> Zero,
             utm_zone |-> 0, hemisphere |-> "none"]

\* read_georeferencing_file(georef_path) on a file with the given content;
\* ok = FALSE stands for GeoreferencingError (every exception is converted)
ReadGeoreferencingFile(content) ==
    LET lines == ReadLines(content)
    IN  IF Len(lines) < 2 THEN NoAnchor
        ELSE
        LET coord_system == Strip(lines[1])
            coords == Split(Strip(lines[2]))
        IN  IF Len(coords) < 2 THEN NoAnchor
            ELSE
            LET easting == ParseFloat(coords[1])
                northing == ParseFloat(coords[2])
                parts == Split(coord_system)
            IN  IF ~easting.ok \/ ~northing.ok \/ parts = <<>> THEN NoAnchor
                ELSE
                LET last == parts[Len(parts)]
                    utm_zone == ParseInt(SubSeq(last, 1, Len(last) - 1))
                    hemisphere == HemisphereFromCode(last[Len(last)])
                IN  IF ~utm_zone.ok \/ ~hemisphere.ok THEN NoAnchor
                    ELSE [ok |-> TRUE, easting |-> easting.v, northing |-> northing.v,
                          utm_zone |-> utm_zone.v, hemisphere |-> hemisphere.v]

(***************************************************************************)
(* obj_parser.py, assimp_converter.py                                      *)
(***************************************************************************)
MTLLIB_KEY == Str(<<"m", "t", "l", "l", "i", "b", " ">>)

DIFFUSE_MAP_KEY == Str(<<"m", "a", "p", "_", "K", "d">>)

RECURSIVE FindMtlIn(_)
FindMtlIn(lines) ==
    IF lines = <<>> THEN [found |-> FALSE, v |-> <<>>]
    ELSE IF StartsWith(Head(lines), MTLLIB_KEY)
         THEN [found |-> TRUE, v |-> Strip(AfterFirstSpace(Head(lines)).v)]
         ELSE FindMtlIn(Tail(lines))

\* ObjParser._find_mtl_file(obj_path)
FindMtlFile(content) == FindMtlIn(ReadLines(content))

RECURSIVE TextureRefsIn(_, _)
TextureRefsIn(lines, acc) ==
    IF lines = <<>> THEN [ok |-> TRUE, v |-> acc]
    ELSE IF StartsWith(Head(lines), DIFFUSE_MAP_KEY)
         THEN LET r == AfterFirstSpace(Head(lines))
              IN  IF r.ok THEN TextureRefsIn(Tail(lines), acc \cup {Strip(r.v)})
                  ELSE [ok |-> FALSE, v |-> {}]
         ELSE TextureRefsIn(Tail(lines), acc)

\* mtl_content.split('\n'): the pieces between line terminators
SplitNewline(content) ==
    LET ls == ReadLines(content)
    IN  [i \in 1..Len(ls) |->
            IF ls[i][Len(ls[i])].c = "\n" THEN SubSeq(ls[i], 1, Len(ls[i]) - 1) ELSE ls[i]]

\* ObjParser._extract_texture_refs(mtl_path); mtl = [exists, content];
\* ok = FALSE stands for the IndexError of line.split(' ', 1)[1]
ExtractTextureRefs(mtl) ==
    IF mtl.exists THEN TextureRefsIn(SplitNewline(mtl.content), {})
    ELSE [ok |-> TRUE, v |-> {}]

\* ObjParser.get_texture_files(obj_path)
GetTextureFiles(content, mtl) ==
    IF FindMtlFile(content).found THEN ExtractTextureRefs(mtl)
    ELSE [ok |-> TRUE, v |-> {}]

\* get_texture_paths(obj_path): the references that exist on disk; every
\* exception is caught and gives the empty list (failed = TRUE)
GetTexturePaths(content, mtl, onDisk) ==
    LET r == GetTextureFiles(content, mtl)
    IN  IF r.ok THEN [failed |-> FALSE, v |-> r.v \cap onDisk]
        ELSE [failed |-> TRUE, v |-> {}]

(***************************************************************************)
(* Inputs.                                                                 *)
(***************************************************************************)
RECURSIVE SeqsUpTo(_, _)
SeqsUpTo(S, n) ==
    IF n = 0 THEN {<<>>}
    ELSE LET shorter == SeqsUpTo(S, n - 1)
         IN  shorter \cup {Append(t, x) : t \in shorter, x \in S}

NL == Str(<<"\n">>)

GoodVertexLines ==
    { Str(<<"v", " ", "0", " ", "0", " ", "1", "\n">>),
      Str(<<"v", " ", "1", " ", "2", " ", "3", "\n">>) }

BadVertexLines == { Str(<<"v", " ", "1", " ", "2", "\n">>) }

MtllibLine == Str(<<"m", "t", "l", "l", "i", "b", " ", "m", "\n">>)

\* lines of the mesh files convert_model is run on
PipelineLines ==
    { Str(<<"v", " ", "1", " ", "2", " ", "3", "\n">>) } \cup BadVertexLines \cup {MtllibLine}

\* lines of the mesh files apply_z_offset_to_obj is run on
ApplyLines ==
    GoodVertexLines \cup BadVertexLines \cup
    { Str(<<" ", "v", " ", "+", "1", " ", ".", "5", " ", "-", "2", ".", "0", " ", "1", " ", "\n">>),
      Str(<<"v", " ", "0", "1", " ", "2", " ", "3">>),
      Str(<<"f", " ", "1", " ", "2", " ", "3", "\n">>),
      Str(<<"v", "n", " ", "0", " ", "0", " ", "1", "\n">>),
      Str(<<"#", " ", "v", " ", "\n">>),
      Str(<<" ", "\n">>),
      Str(<<"f", " ", "1", "\r", "\n">>),
      Str(<<"#", "\r">>),
      MtllibLine }

MeshesOf(lines, n) == { Concat(t) : t \in SeqsUpTo(lines, n) }

Absent == [exists |-> FALSE, content |-> <<>>]

File(content) == [exists |-> TRUE, content |-> content]

SystemLines ==
    { Str(<<"U", " ", "3", "5", "N", "\n">>),
      Str(<<"1", "S", " ", "\n">>),
      Str(<<"6", "0", "N", "\n">>),
      Str(<<"+", "7", "S", "\n">>),
      Str(<<"0", "N", "\n">>),
      Str(<<"6", "1", "S", "\n">>),
      Str(<<"-", "5", "N", "\n">>),
      Str(<<"N", "\n">>),
      Str(<<"U", " ", "x", "N", "\n">>),
      Str(<<"3", "5", "E", "\n">>),
      Str(<<"3", "5", "n", "\n">>),
      Str(<<"3", "5", "\n">>),
      Str(<<"3", "5", "N", " ", "U", "\n">>),
      NL }

GoodSystemLine == Str(<<"U", " ", "3", "5", "N", "\n">>)

CoordLines ==
    { Str(<<"5", " ", "4", "\n">>),
      Str(<<"5", ".", "5", " ", "-", "4">>),
      Str(<<"5", " ", "4", " ", "3", "\n">>),
      Str(<<"5", "\n">>),
      Str(<<"x", " ", "4", "\n">>),
      Str(<<"5", " ", "y", "\n">>),
      NL }

GoodCoordLine == Str(<<"5", " ", "4", "\n">>)

\* descriptor files: empty, one line only, every system line with a good
\* coordinate line, a good system line with every coordinate line
GeorefContents ==
    {<<>>, GoodSystemLine, Str(<<"3", "5", "N">>)} \cup
    { l1 \o GoodCoordLine : l1 \in SystemLines } \cup
    { GoodSystemLine \o l2 : l2 \in CoordLines } \cup
    { Str(<<"0", "N", "\n">>) \o Str(<<"5", "\n">>) }

MtlFiles ==
    { Absent,
      File(Str(<<"m", "a", "p", "_", "K", "d", " ", "a", "\n", "K", "d", "\n">>)),
      File(Str(<<"m", "a", "p", "_", "K", "d", "\n">>)) }

TexturesOnDisk == { {}, {Str(<<"a">>)} }

None == [given |-> FALSE, v |-> Zero]

Given(x) == [given |-> TRUE, v |-> x]

ZArgs == { None, Given(Zero), Given(<<1, 1>>) }

\* plane coefficients around the tolerance, in units of 1e-7
CoefC == {0} \cup { s * (EPSILON + k) : s \in {-1, 1}, k \in (-MaxCoef)..MaxCoef }

CoefD == { k * EPSILON : k \in (-MaxCoef)..MaxCoef }

Planes == { <<a, 0, c, d>> : a \in {0, EPSILON}, c \in CoefC, d \in CoefD }

\* the plane fits drawn in a run of convert_model
PipelinePlanes == { <<0, 0, c, d>> : c \in {0, 2 * EPSILON}, d \in {0, EPSILON} }

(***************************************************************************)
(* State of a run of Pipeline.convert_model.                               *)
(***************************************************************************)
VARIABLES
    pc,             \* the statement convert_model is at; "done", "raised"
    error,          \* the exception convert_model raised, "none" if none
    objFile,        \* obj_file on disk: [exists, content]
    georefFile,     \* georef_file on disk: [exists, content]
    z_arg,          \* the z_offset argument: None or Given(x)
    no_textures,    \* the no_textures argument
    linesep,        \* os.linesep of the platform
    output_kmz,     \* the path output_kmz names: OtherPath or AlignedPath
    outDir,         \* directory of output_kmz: "missing", "exists", "created"
    anchor,         \* what read_georeferencing_file returned
    geodetic,       \* TRUE once utm_to_wgs84 returned longitude, latitude
    z_offset,       \* the local z_offset: None or Given(x)
    vertices,       \* what _extract_all_vertices_from_obj returned
    fit,            \* what plane.fit returned: [plane, inliers]
    estimate,       \* what _calculate_z_offset returned: [v, warning]
    tempDir,        \* the TemporaryDirectory: "none", "exists", "removed"
    aligned,        \* the copy written to <obj_name>_aligned.obj next to obj_file:
                    \* [exists, content]; when output_kmz names that path, kmz
                    \* tells what the path holds after each write to it
    toConvert,      \* obj_file_to_convert: "none", "original", "aligned"
    converterInput, \* the file convert_obj_to_dae was called on: [exists, content]
    dae,            \* the converted mesh in the temporary directory
    texture_files,  \* the texture paths handed to create_kmz
    kmz,            \* the file at output_kmz: "absent", "old", "mesh", "partial",
                    \* "written"
    trace           \* the stages run so far: [stage, ok]

vars == <<pc, error, objFile, georefFile, z_arg, no_textures, linesep, output_kmz,
          outDir, anchor, geodetic, z_offset, vertices, fit, estimate, tempDir, aligned,
          toConvert, converterInput, dae, texture_files, kmz, trace>>

args == <<objFile, georefFile, z_arg, no_textures, linesep, output_kmz>>

NoFit == [plane |-> <<0, 0, 0, 0>>, inliers |-> {}]

NoEstimate == [v |-> Zero, warning |-> FALSE]

Fresh ==
    /\ error = "none"
    /\ anchor = NoAnchor
    /\ geodetic = FALSE
    /\ z_offset = None
    /\ vertices = <<>>
    /\ fit = NoFit
    /\ estimate = NoEstimate
    /\ tempDir = "none"
    /\ aligned = Absent
    /\ toConvert = "none"
    /\ converterInput = Absent
    /\ dae = "none"
    /\ texture_files = {}
    /\ trace = <<>>

\* output_kmz is any path the caller passes: one of its own, or the path
\* <obj_dir>/<obj_name>_aligned.obj that _apply_z_offset writes to
OtherPath == "other"

AlignedPath == "aligned"

\* the directory of output_kmz, the file at output_kmz and the path, before
\* the run; a path that is the aligned copy's lies in the directory of obj_file
OutputStates ==
    { <<"missing", "absent", OtherPath>>,
      <<"exists", "old", OtherPath>>,
      <<"exists", "absent", AlignedPath>> }

Init ==
    /\ pc = "validate"
    /\ objFile \in {Absent} \cup { File(m) : m \in MeshesOf(PipelineLines, MaxMeshLines) }
    /\ georefFile \in {Absent} \cup { File(g) : g \in GeorefContents }
    /\ z_arg \in ZArgs
    /\ no_textures \in BOOLEAN
    /\ linesep = LF
    /\ \E o \in OutputStates :
        /\ outDir = o[1]
        /\ kmz = o[2]
        /\ output_kmz = o[3]
    /\ Fresh

Ran(stage, ok) == Append(trace, [stage |-> stage, ok |-> ok])

\* leaving the `with tempfile.TemporaryDirectory()` block, either way
Cleanup ==
    /\ tempDir' = (IF tempDir = "exists" THEN "removed" ELSE tempDir)
    /\ dae' = (IF dae = "exists" THEN "removed" ELSE dae)

\* an exception leaves convert_model
Raise(stage, err) ==
    /\ pc' = "raised"
    /\ error' = err
    /\ trace' = Ran(stage, FALSE)
    /\ Cleanup

\* the stage returned; convert_model goes on at `next`
Return(stage, next) ==
    /\ pc' = next
    /\ error' = error
    /\ trace' = Ran(stage, TRUE)

\* Pipeline._validate_inputs: the exception it raises, "none" if none
ValidateInputs(obj, georef) ==
    IF ~obj.exists THEN "FileNotFoundError"
    ELSE IF ~georef.exists THEN "FileNotFoundError"
    ELSE "none"

Validate ==
    /\ pc = "validate"
    /\ LET e == ValidateInputs(objFile, georefFile)
       IN  IF e # "none"
           THEN Raise("validate", e)
           ELSE Return("validate", "ensure_dir") /\ UNCHANGED <<tempDir, dae>>
    /\ UNCHANGED <<args, outDir, anchor, geodetic, z_offset, vertices, fit, estimate,
                   aligned, toConvert, converterInput, texture_files, kmz>>

\* Pipeline._ensure_output_directory
EnsureOutputDirectory ==
    /\ pc = "ensure_dir"
    /\ outDir' = (IF outDir = "missing" THEN "created" ELSE outDir)
    /\ Return("ensure_dir", "read_georef")
    /\ UNCHANGED <<args, anchor, geodetic, z_offset, vertices, fit, estimate, tempDir,
                   aligned, toConvert, converterInput, dae, texture_files, kmz>>

ReadGeoref ==
    /\ pc = "read_georef"
    /\ LET r == ReadGeoreferencingFile(georefFile.content)
       IN  IF r.ok
           THEN /\ anchor' = r
                /\ Return("read_georef", "utm")
                /\ UNCHANGED <<tempDir, dae>>
           ELSE /\ anchor' = anchor
                /\ Raise("read_georef", "GeoreferencingError")
    /\ UNCHANGED <<args, outDir, geodetic, z_offset, vertices, fit, estimate,
                   aligned, toConvert, converterInput, texture_files, kmz>>

\* utm_to_wgs84: the projection library accepts zones 1..60; what it does
\* with another zone is not fixed by this repository
UtmToWgs84 ==
    /\ pc = "utm"
    /\ \E accepted \in BOOLEAN :
        /\ anchor.utm_zone \in 1..60 => accepted
        /\ IF accepted
           THEN /\ geodetic' = TRUE
                /\ Return("utm", "offset")
                /\ UNCHANGED <<tempDir, dae>>
           ELSE /\ geodetic' = geodetic
                /\ Raise("utm", "CRSError")
    /\ UNCHANGED <<args, outDir, anchor, z_offset, vertices, fit, estimate,
                   aligned, toConvert, converterInput, texture_files, kmz>>

\* `if z_offset is None`
IsNone(z) == ~z.given

\* convert_model lines 38-39 with a z_offset argument: nothing is estimated
UseGivenOffset ==
    /\ pc = "offset"
    /\ ~IsNone(z_arg)
    /\ z_offset' = z_arg
    /\ pc' = "tempdir"
    /\ UNCHANGED <<error, trace, args, outDir, anchor, geodetic, vertices, fit, estimate,
                   tempDir, aligned, toConvert, converterInput, dae, texture_files, kmz>>

\* calculate_z_offset(obj_file): vertex extraction, the plane fit of the
\* pyransac3d library (any plane, any non-empty inlier set, or an exception),
\* then _calculate_z_offset
CalculateZOffset ==
    /\ pc = "offset"
    /\ IsNone(z_arg)
    /\ LET ex == ExtractAllVerticesFromObj(objFile.content)
       IN  IF ~ex.ok
           THEN /\ Raise("offset", "ValueError")
                /\ UNCHANGED <<vertices, fit, estimate, z_offset>>
           ELSE /\ vertices' = ex.v
                /\ \/ /\ Raise("offset", "ValueError")
                      /\ UNCHANGED <<fit, estimate, z_offset>>
                   \/ \E plane \in PipelinePlanes :
                      \E inliers \in (SUBSET (1..Len(ex.v))) \ {{}} :
                        /\ fit' = [plane |-> plane, inliers |-> inliers]
                        /\ estimate' = CalculateZOffsetFromPlane(ex.v, plane, inliers)
                        /\ z_offset' = Given(estimate'.v)
                        /\ Return("offset", "tempdir")
                        /\ UNCHANGED <<tempDir, dae>>
    /\ UNCHANGED <<args, outDir, anchor, geodetic, aligned, toConvert, converterInput,
                   texture_files, kmz>>

\* `with tempfile.TemporaryDirectory() as temp_dir:` and line 42
EnterTempDir ==
    /\ pc = "tempdir"
    /\ tempDir' = "exists"
    /\ toConvert' = "original"
    /\ Return("tempdir", "apply")
    /\ UNCHANGED <<args, outDir, anchor, geodetic, z_offset, vertices, fit, estimate,
                   aligned, converterInput, dae, texture_files, kmz>>

\* as `if z_offset != 0`, but testing `z_offset is not None`
NeedsRewriteWhenSet(z) == z.given

\* `if z_offset != 0`
NeedsRewrite(z) == z.v # Zero

\* convert_model lines 44-45 with a zero offset: no rewriting
SkipRewrite ==
    /\ pc = "apply"
    /\ ~NeedsRewrite(z_offset)
    /\ pc' = "convert"
    /\ UNCHANGED <<error, trace, args, outDir, anchor, geodetic, z_offset, vertices, fit,
                   estimate, tempDir, aligned, toConvert, converterInput, dae,
                   texture_files, kmz>>

\* Pipeline._apply_z_offset: the copy is written next to obj_file
ApplyZOffset ==
    /\ pc = "apply"
    /\ NeedsRewrite(z_offset)
    /\ LET r == ApplyZOffsetToObj(objFile.content, z_offset.v, linesep)
       IN  /\ aligned' = File(r.out)
           /\ kmz' = (IF output_kmz = AlignedPath THEN "mesh" ELSE kmz)
           /\ IF r.ok
              THEN /\ toConvert' = "aligned"
                   /\ Return("apply", "convert")
                   /\ UNCHANGED <<tempDir, dae>>
              ELSE /\ toConvert' = toConvert
                   /\ Raise("apply", "FileProcessingError")
    /\ UNCHANGED <<args, outDir, anchor, geodetic, z_offset, vertices, fit, estimate,
                   converterInput, texture_files>>

\* the file obj_file_to_convert names
FileToConvert == IF toConvert = "aligned" THEN aligned ELSE objFile

\* as the call of convert_obj_to_dae, but going on after the converter failed
ConvertObjToDaeIgnoringFailure ==
    /\ pc = "convert"
    /\ converterInput' = FileToConvert
    /\ \/ /\ dae' = "exists"
          /\ trace' = Ran("convert", TRUE)
       \/ /\ dae' = dae
          /\ trace' = Ran("convert", FALSE)
    /\ pc' = "textures"
    /\ UNCHANGED <<error, args, outDir, anchor, geodetic, z_offset, vertices, fit, estimate,
                   tempDir, aligned, toConvert, texture_files, kmz>>

\* self.converter.convert_obj_to_dae(obj_file_to_convert, temp_dir): the
\* external converter writes the .dae into temp_dir or fails
ConvertObjToDae ==
    /\ pc = "convert"
    /\ converterInput' = FileToConvert
    /\ \/ /\ dae' = "exists"
          /\ tempDir' = tempDir
          /\ Return("convert", "textures")
       \/ Raise("convert", "ModelConversionError")
    /\ UNCHANGED <<args, outDir, anchor, geodetic, z_offset, vertices, fit, estimate,
                   aligned, toConvert, texture_files, kmz>>

\* convert_model lines 51-53 with no_textures
SkipTextures ==
    /\ pc = "textures"
    /\ no_textures
    /\ texture_files' = {}
    /\ pc' = "kml"
    /\ UNCHANGED <<error, trace, args, outDir, anchor, geodetic, z_offset, vertices, fit,
                   estimate, tempDir, aligned, toConvert, converterInput, dae, kmz>>

\* get_texture_paths(obj_file), for any material file and textures on disk
DiscoverTextures ==
    /\ pc = "textures"
    /\ ~no_textures
    /\ \E mtl \in MtlFiles : \E onDisk \in TexturesOnDisk :
        LET r == GetTexturePaths(objFile.content, mtl, onDisk)
        IN  /\ texture_files' = r.v
            /\ pc' = "kml"
            /\ error' = error
            /\ trace' = Ran("textures", ~r.failed)
    /\ UNCHANGED <<args, outDir, anchor, geodetic, z_offset, vertices, fit, estimate,
                   tempDir, aligned, toConvert, converterInput, dae, kmz>>

\* create_kml_content: fails when the template cannot be read
CreateKmlContent ==
    /\ pc = "kml"
    /\ \/ Return("kml", "kmz") /\ UNCHANGED <<tempDir, dae>>
       \/ Raise("kml", "FileNotFoundError")
    /\ UNCHANGED <<args, outDir, anchor, geodetic, z_offset, vertices, fit, estimate,
                   aligned, toConvert, converterInput, texture_files, kmz>>

\* create_kmz, then the end of the `with` block and of convert_model
CreateKmz ==
    /\ pc = "kmz"
    /\ \/ /\ kmz' = "written"
          /\ pc' = "done"
          /\ error' = error
          /\ trace' = Ran("kmz", TRUE)
          /\ Cleanup
       \/ /\ kmz' \in {kmz, "partial"}
          /\ Raise("kmz", "OSError")
    /\ UNCHANGED <<args, outDir, anchor, geodetic, z_offset, vertices, fit, estimate,
                   aligned, toConvert, converterInput, texture_files>>

Next ==
    \/ Validate
    \/ EnsureOutputDirectory
    \/ ReadGeoref
    \/ UtmToWgs84
    \/ UseGivenOffset
    \/ CalculateZOffset
    \/ EnterTempDir
    \/ SkipRewrite
    \/ ApplyZOffset
    \/ ConvertObjToDae
    \/ SkipTextures
    \/ DiscoverTextures
    \/ CreateKmlContent
    \/ CreateKmz

Spec == Init /\ [][Next]_vars

(***************************************************************************)
(* apply_z_offset_to_obj called on its own: any mesh, any offset, an       *)
(* output path that holds nothing or an older file.                        *)
(***************************************************************************)
ApplyOffsets == { Zero, <<1, 1>>, <<-1, 2>> }

OlderOutputs == { Absent, File(Str(<<"#", "\n">>)) }

InitApply ==
    /\ pc = "apply_call"
    /\ objFile \in { File(m) : m \in MeshesOf(ApplyLines, MaxLines) }
    /\ z_offset \in { Given(x) : x \in ApplyOffsets }
    /\ aligned \in OlderOutputs
    /\ linesep \in {LF, CRLF}
    /\ output_kmz = OtherPath
    /\ error = "none"
    /\ georefFile = Absent
    /\ z_arg = None
    /\ no_textures = FALSE
    /\ outDir = "exists"
    /\ anchor = NoAnchor
    /\ geodetic = FALSE
    /\ vertices = <<>>
    /\ fit = NoFit
    /\ estimate = NoEstimate
    /\ tempDir = "none"
    /\ toConvert = "none"
    /\ converterInput = Absent
    /\ dae = "none"
    /\ texture_files = {}
    /\ kmz = "absent"
    /\ trace = <<>>

ApplyCall ==
    /\ pc = "apply_call"
    /\ LET r == ApplyZOffsetToObj(objFile.content, z_offset.v, linesep)
       IN  /\ aligned' = File(r.out)
           /\ pc' = (IF r.ok THEN "apply_returned" ELSE "apply_raised")
           /\ error' = (IF r.ok THEN "none" ELSE "FileProcessingError")
    /\ UNCHANGED <<args, outDir, anchor, geodetic, z_offset, vertices, fit, estimate,
                   tempDir, toConvert, converterInput, dae, texture_files, kmz, trace>>

SpecApply == InitApply /\ [][ApplyCall]_vars

(***************************************************************************)
(* _calculate_z_offset called on its own: any vertices, any plane and any  *)
(* non-empty inlier set the fit returns.                                   *)
(***************************************************************************)
ZValues == { Zero, <<1, 1>>, <<-3, 2>> }

Points == { <<Zero, Zero, z>> : z \in ZValues }

InitPlane ==
    /\ pc = "fit_call"
    /\ vertices \in SeqsUpTo(Points, MaxPoints) \ {<<>>}
    /\ linesep = LF
    /\ output_kmz = OtherPath
    /\ objFile = Absent
    /\ z_offset = None
    /\ aligned = Absent
    /\ error = "none"
    /\ georefFile = Absent
    /\ z_arg = None
    /\ no_textures = FALSE
    /\ outDir = "exists"
    /\ anchor = NoAnchor
    /\ geodetic = FALSE
    /\ fit = NoFit
    /\ estimate = NoEstimate
    /\ tempDir = "none"
    /\ toConvert = "none"
    /\ converterInput = Absent
    /\ dae = "none"
    /\ texture_files = {}
    /\ kmz = "absent"
    /\ trace = <<>>

PlaneFitReturns ==
    /\ pc = "fit_call"
    /\ \E plane \in Planes : \E inliers \in (SUBSET (1..Len(vertices))) \ {{}} :
        /\ fit' = [plane |-> plane, inliers |-> inliers]
        /\ estimate' = CalculateZOffsetFromPlane(vertices, plane, inliers)
        /\ z_offset' = Given(estimate'.v)
    /\ pc' = "fit_returned"
    /\ UNCHANGED <<error, args, outDir, anchor, geodetic, vertices, tempDir, aligned,
                   toConvert, converterInput, dae, texture_files, kmz, trace>>

SpecPlane == InitPlane /\ [][PlaneFitReturns]_vars


(***************************************************************************)
(* Properties.                                                             *)
(***************************************************************************)
Ended == pc \in {"done", "raised"}

InTrace(stage) == \E i \in DOMAIN trace : trace[i].stage = stage

Succeeded(stage) == \E i \in DOMAIN trace : trace[i].stage = stage /\ trace[i].ok

\* the file at output_kmz is as it was before the run: not there, or the older
\* file (no step of the run brings either state back once the path is written)
OutputUntouched == kmz \in {"absent", "old"}

\* the line carries the vertex prefix
IsVertexDeclaration(line) == StartsWith(Strip(line), VERTEX_PREFIX)

\* a token Python reads as a decimal number: an optional sign in front, digits,
\* at most one point, at least one digit; or a formatted float
IsNumberToken(tok) ==
    \/ tok = <<FloatRepr(tok[1].q)>>
    \/ /\ \A i \in 1..Len(tok) : tok[i].c \in Digits \cup {".", "+", "-"}
       /\ \A i \in 2..Len(tok) : tok[i].c \notin {"+", "-"}
       /\ Cardinality({ i \in 1..Len(tok) : tok[i].c = "." }) <= 1
       /\ \E i \in 1..Len(tok) : tok[i].c \in Digits

\* a token that is an integer: an optional sign in front, then digits only
IsIntegerToken(tok) ==
    /\ \E i \in 1..Len(tok) : tok[i].c \in Digits
    /\ \A i \in 1..Len(tok) : tok[i].c \in Digits \/ (i = 1 /\ tok[i].c \in {"+", "-"})

\* a vertex declaration with fewer than three coordinates
IsMalformedVertex(line) == IsVertexDeclaration(line) /\ Len(Split(line)) < 4

\* a vertex declaration with three numeric coordinates
IsWellFormedVertex(line) ==
    /\ IsVertexDeclaration(line)
    /\ Len(Split(line)) >= 4
    /\ \A k \in 2..4 : IsNumberToken(Split(line)[k])

HasMalformedVertex(content) ==
    \E i \in 1..Len(ReadLines(content)) : IsMalformedVertex(ReadLines(content)[i])

\* C1: whichever way convert_model ends, the temporary directory and the
\* offset-corrected mesh copy the run created no longer exist.
C1_TempAreaRemoved ==
    Ended => tempDir # "exists" /\ ~aligned.exists

\* C2: when apply_z_offset_to_obj fails on a malformed vertex line it raises
\* FileProcessingError and the output path is left as it was before the call;
\* it never holds a prefix of the rewritten mesh.
C2_NoPartialOutput ==
    [][(pc = "apply_call" /\ pc' = "apply_raised")
         => (error' = "FileProcessingError" /\ aligned' = aligned)]_vars

\* C4: with the mesh file or the georeference file missing, convert_model
\* fails with ValidationError before any other work: no output directory is
\* created, nothing is read, estimated, written or converted.
C4_MissingInputIsValidationError ==
    ((~objFile.exists \/ ~georefFile.exists) /\ pc # "validate")
        => /\ pc = "raised"
           /\ error = "ValidationError"
           /\ outDir # "created"
           /\ anchor = NoAnchor
           /\ estimate = NoEstimate
           /\ ~aligned.exists
           /\ ~converterInput.exists
           /\ OutputUntouched

\* C5: every anchor read_georeferencing_file returns has a zone in 1..60 and
\* a hemisphere that is NORTH or SOUTH.
C5_ZoneInRange ==
    anchor.ok => anchor.utm_zone \in 1..60 /\ anchor.hemisphere \in {"NORTH", "SOUTH"}

\* the parsed x, y, z of a line with three numeric coordinates
CoordOf(line, k) == ParseFloat(Split(line)[k + 1]).v

AllVerticesWellFormed(content) ==
    \A i \in 1..Len(ReadLines(content)) :
        IsVertexDeclaration(ReadLines(content)[i]) => IsWellFormedVertex(ReadLines(content)[i])

RECURSIVE RawLinesFrom(_, _, _)
RawLinesFrom(s, cur, acc) ==
    IF s = <<>>
    THEN IF cur = <<>> THEN acc ELSE Append(acc, cur)
    ELSE IF Head(s).c = "\r" /\ Len(s) >= 2 /\ s[2].c = "\n"
         THEN RawLinesFrom(Tail(Tail(s)), <<>>, Append(acc, cur \o CRLF))
         ELSE IF Head(s).c \in {"\r", "\n"}
              THEN RawLinesFrom(Tail(s), <<>>, Append(acc, Append(cur, Head(s))))
              ELSE RawLinesFrom(Tail(s), Append(cur, Head(s)), acc)

\* the lines of a file as they are on disk, each with its own terminator
RawLines(content) == RawLinesFrom(content, <<>>, <<>>)

\* a line without its terminator
LineText(line) == SelectSeq(line, LAMBDA ch : ch.c \notin {"\r", "\n"})

\* the rewritten vertex line keeps x and y and has z minus the offset
IsShifted(outLine, inLine, offset) ==
    /\ IsWellFormedVertex(outLine)
    /\ Len(Split(outLine)) = 4
    /\ CoordOf(outLine, 1) = CoordOf(inLine, 1)
    /\ CoordOf(outLine, 2) = CoordOf(inLine, 2)
    /\ RatAdd(CoordOf(outLine, 3), offset) = CoordOf(inLine, 3)

\* C3: for a mesh whose vertex lines are all well formed, apply_z_offset_to_obj
\* succeeds and writes as many lines in the same order; a line that is not a
\* vertex declaration is identical to the input line, a vertex declaration
\* keeps x and y and has z replaced by z minus the offset.
C3_RewritePreservesLines ==
    (pc # "apply_call" /\ AllVerticesWellFormed(objFile.content))
        => /\ pc = "apply_returned"
           /\ LET inLines == RawLines(objFile.content)
                  outLines == RawLines(aligned.content)
              IN  /\ Len(outLines) = Len(inLines)
                  /\ \A i \in 1..Len(inLines) :
                        IF IsVertexDeclaration(inLines[i])
                        THEN IsShifted(outLines[i], inLines[i], z_offset.v)
                        ELSE outLines[i] = inLines[i]

\* What holds of the rewriting instead: the same, with a line that is not a
\* vertex declaration identical to the input line up to its terminator.
RewritePreservesLineTexts ==
    (pc # "apply_call" /\ AllVerticesWellFormed(objFile.content))
        => /\ pc = "apply_returned"
           /\ LET inLines == RawLines(objFile.content)
                  outLines == RawLines(aligned.content)
              IN  /\ Len(outLines) = Len(inLines)
                  /\ \A i \in 1..Len(inLines) :
                        IF IsVertexDeclaration(inLines[i])
                        THEN IsShifted(outLines[i], inLines[i], z_offset.v)
                        ELSE LineText(outLines[i]) = LineText(inLines[i])

\* the descriptor deviates from the two-line form: a line is missing, there
\* are fewer than two coordinates or one of the two is not a number, the zone
\* suffix has no integer in front, or its last letter is not N or S
StructuralDeviation(content) ==
    LET lines == ReadLines(content)
    IN  \/ Len(lines) < 2
        \/ LET coords == Split(lines[2])
               label == Split(lines[1])
           IN  \/ Len(coords) < 2
               \/ ~IsNumberToken(coords[1])
               \/ ~IsNumberToken(coords[2])
               \/ label = <<>>
               \/ LET suffix == label[Len(label)]
                  IN  \/ ~IsIntegerToken(SubSeq(suffix, 1, Len(suffix) - 1))
                      \/ suffix[Len(suffix)].c \notin {"N", "S"}

C10_OffsetSelection ==
    /\ InTrace("offset") => ~z_arg.given
    /\ (z_arg.given /\ InTrace("tempdir")) => z_offset = z_arg
    /\ (~z_arg.given /\ InTrace("tempdir")) => Succeeded("offset") /\ z_offset = Given(estimate.v)
    /\ InTrace("convert") =>
         IF z_offset.v # Zero
         THEN Succeeded("apply") /\ toConvert = "aligned" /\ converterInput = aligned
              /\ aligned.exists
         ELSE ~InTrace("apply") /\ toConvert = "original" /\ converterInput = objFile
              /\ ~aligned.exists

C10_Witness ==
    /\ InTrace("convert")
    /\ z_arg = Given(Zero)
    /\ converterInput = objFile

\* x is the z-intercept -D/C of the plane
IsIntercept(x, plane_eq) == x[1] * plane_eq[3] = -plane_eq[4] * x[2]

\* x is the mean of the z coordinates of the inliers
IsInlierMean(x, points, inliers) ==
    LET s == SumZ(points, inliers)
    IN  x[1] * s[2] * Cardinality(inliers) = s[1] * x[2]

\* C7 as stated: the estimate is -D/C when |C| is not below the tolerance and
\* the mean z of the inliers, with a warning, when |C| is below it.
C7_InterceptUnlessBelowTolerance ==
    pc = "fit_returned" =>
        IF Abs(fit.plane[3]) >= EPSILON
        THEN IsIntercept(estimate.v, fit.plane) /\ ~estimate.warning
        ELSE IsInlierMean(estimate.v, vertices, fit.inliers) /\ estimate.warning

\* C7 as amended: the estimate is -D/C when |C| is above the tolerance and the
\* mean z of the inliers, with a warning, when |C| is at or below it.
C7_InterceptAboveTolerance ==
    pc = "fit_returned" =>
        IF Abs(fit.plane[3]) > EPSILON
        THEN IsIntercept(estimate.v, fit.plane) /\ ~estimate.warning
        ELSE IsInlierMean(estimate.v, vertices, fit.inliers) /\ estimate.warning

C7_Witness ==
    /\ pc = "fit_returned"
    /\ Abs(fit.plane[3]) = EPSILON
    /\ estimate.warning
    /\ ~IsIntercept(estimate.v, fit.plane)

\* the order of the stages in convert_model
StageRank(stage) ==
    CASE stage = "validate" -> 1
      [] stage = "ensure_dir" -> 2
      [] stage = "read_georef" -> 3
      [] stage = "utm" -> 4
      [] stage = "offset" -> 5
      [] stage = "tempdir" -> 6
      [] stage = "apply" -> 7
      [] stage = "convert" -> 8
      [] stage = "textures" -> 9
      [] stage = "kml" -> 10
      [] stage = "kmz" -> 11

\* the stages ran in the order of convert_model, each at most once
InStageOrder ==
    \A i, j \in DOMAIN trace : i < j => StageRank(trace[i].stage) < StageRank(trace[j].stage)

\* a stage after validation ran only when validation and the stages between
\* that are never skipped had run
NothingSkipped ==
    /\ InTrace("kmz") => InTrace("kml") /\ InTrace("convert")
    /\ InTrace("convert") => InTrace("tempdir") /\ InTrace("utm")
    /\ InTrace("apply") => InTrace("tempdir")
    /\ InTrace("textures") => InTrace("convert")
    /\ InTrace("offset") => InTrace("utm")
    /\ InTrace("utm") => InTrace("read_georef")
    /\ InTrace("read_georef") => InTrace("validate")

\* C8 as stated: the stages run in order, each at most once, each only after
\* the one before completed, and a failure of any stage ends the run: no
\* later stage runs.
C8_AnyFailureEndsRun ==
    /\ InStageOrder
    /\ NothingSkipped
    /\ \A i \in DOMAIN trace : ~trace[i].ok => (i = Len(trace) /\ pc = "raised")

\* C8 as amended: the same, except that a failure inside texture discovery is
\* caught: it gives an empty texture list and the run goes on to packaging.
C8_FailureEndsRunExceptTextures ==
    /\ InStageOrder
    /\ NothingSkipped
    /\ \A i \in DOMAIN trace :
         ~trace[i].ok =>
            IF trace[i].stage = "textures"
            THEN texture_files = {} /\ (pc = "kml" \/ InTrace("kml"))
            ELSE i = Len(trace) /\ pc = "raised"

C8_Witness ==
    /\ pc = "done"
    /\ \E i \in DOMAIN trace : trace[i].stage = "textures" /\ ~trace[i].ok
    /\ Succeeded("apply")
    /\ Succeeded("offset")

\* C9: a malformed vertex line is fatal: the estimate does not go through by
\* skipping it, convert_model does not complete, and the converter is never
\* invoked on that mesh or on a copy of it.
C9_MalformedVertexFatal ==
    (objFile.exists /\ HasMalformedVertex(objFile.content))
        => /\ ~Succeeded("offset")
           /\ ~InTrace("convert")
           /\ pc # "done"

\* the stages the run can fail in before the converted mesh exists
StagesBeforePackaging == {"validate", "read_georef", "offset", "apply", "convert"}

\* the run ended by a failure of one of those stages
FailedBeforePackaging ==
    /\ pc = "raised"
    /\ trace # <<>>
    /\ trace[Len(trace)].stage \in StagesBeforePackaging

\* C11: the output archive is written only by the packaging stage: in every
\* run in which validation, georeference parsing, offset estimation, mesh
\* rewriting or the external conversion fails, the file at the output path is
\* neither created nor modified; and whenever the packager is invoked, the
\* converted mesh it is given still exists, the temporary directory not yet
\* being removed.
C11_OutputOnlyByPackager ==
    /\ FailedBeforePackaging => OutputUntouched
    /\ pc = "kmz" => (dae = "exists" /\ tempDir = "exists")

\* the second half of C11 on its own: create_kmz runs inside the `with` block
PackagerFindsConvertedMesh ==
    pc = "kmz" => (dae = "exists" /\ tempDir = "exists")

\* the first half of C11 for an output path that is not the aligned copy's:
\* no stage before create_kmz touches it
OutputUntouchedOnOtherPath ==
    (output_kmz = OtherPath /\ (FailedBeforePackaging \/ pc \notin {"done", "raised"}))
        => OutputUntouched

====
